---- MODULE Spec2Model ----
(***************************************************************************)
(* Model of the exchange gateway of pycryptobot:                           *)
(*   src/models/config/binance_parser.py     (market / credential parsing) *)
(*   src/models/exchange/coinbase_pro/api.py (AuthAPI and PublicAPI)       *)
(*                                                                         *)
(* Text is modelled as a sequence of one-character strings, so that        *)
(* suffix tests, replacement and length are computed as Python computes    *)
(* them.  Python's None is "None"; where a text is expected it is the      *)
(* one-element sequence NoneText, which no text equals.                    *)
(***************************************************************************)
EXTENDS Integers, Sequences, FiniteSets, TLC

VARIABLES
    market,     \* parseMarket: the symbol handed to parseMarket
    parsed,     \* parseMarket: Pending, or the outcome of the call
    ordResp,    \* getOrders: the frame authAPI returned for GET orders
    ordArgs,    \* getOrders: the arguments market, action, status
    ordOut,     \* getOrders: Pending, or the outcome of the call
    binCfg,     \* parser: the binance_config dict handed to parser
    files,      \* parser: config.json and the key file on disk
    app,        \* parser: the fields of the app object
    binOut,     \* parser: Pending, or the outcome of the call
    auth,       \* client: the AuthAPI object (NoAuth before construction)
    pub,        \* client: the flags of the PublicAPI object
    call,       \* client: the operation in progress
    pc,         \* client: "idle", "waiting" (a request is in flight),
                \*         "blocked" (it will never be answered), "done"
    req,        \* client: the request in flight
    sent,       \* client: the requests the operation has issued so far
    out,        \* client: Pending, or the outcome of the operation
    apis,       \* client: the authAPI calls of the operation, each with
                \*         its reply, its outcome and the branch it took
    quant,      \* quantizer: the product, the column and the amount
    quantOut,   \* quantizer: Pending, or the amount returned
    session,    \* threads: the AuthAPI object the threads share
    threads,    \* threads: each thread's place in authAPI and its locals
    clock,      \* threads: time.time()
    tracebacklimit  \* threads: sys.tracebacklimit ("unset" by default)

parseVars == <<market, parsed>>
orderVars == <<ordResp, ordArgs, ordOut>>
binVars == <<binCfg, files, app, binOut>>
clientVars == <<auth, pub, call, pc, req, sent, out, apis>>
quantVars == <<quant, quantOut>>
threadVars == <<session, threads, clock, tracebacklimit>>

vars == <<market, parsed, ordResp, ordArgs, ordOut, binCfg, files, app, binOut,
          auth, pub, call, pc, req, sent, out, apis, quant, quantOut,
          session, threads, clock, tracebacklimit>>

None == "None"
NoneText == <<"None">>

\* A cell of a table or a value of a dict: the number v, the JSON null, a
\* key that is not there, or the float NaN.  Amounts are non-negative
\* integers.
Num(v) == [k |-> "num", v |-> v]
Null == [k |-> "null", v |-> 0]
Absent == [k |-> "absent", v |-> 0]
NaN == [k |-> "nan", v |-> 0]

(***************************************************************************)
(* Bounds of the symbols explored.                                         *)
(***************************************************************************)
MinSymLen == 4
MaxSymLen == 6

\* the characters symbols are built from (upper-case letters of the
\* quote currencies BTC, BNB, US, ...)
Alphabet == {"B", "N", "T", "C", "U", "S"}

\* the characters of the class [0-9A-Z] that occur in the model
UpperAlnum == Alphabet \cup {"D", "G", "A", "E", "F", "1", "0"}

\* the texts of length n over the alphabet
StringsOfLen(n) == [1..n -> Alphabet]

\* symbols outside the enumerated alphabet: the example of the
\* documentation, a symbol with no quote-currency suffix, a lower-case one
ExtraSymbols ==
    { <<"B", "T", "C", "U", "S", "D", "T">>,
      <<"A", "B", "C", "D", "E", "F">>,
      <<"b", "t", "c", "g", "b", "p">>,
      <<"B", "T", "C", "-", "G", "B", "P">> }

Symbols ==
    UNION {StringsOfLen(n) : n \in MinSymLen..MaxSymLen} \cup ExtraSymbols

(***************************************************************************)
(* binance_parser.py                                                       *)
(***************************************************************************)

\* re.compile(r"^[0-9A-Z]{5,12}$").match(market)
isMarketValid(m) ==
    IF m = NoneText THEN FALSE
    ELSE /\ Len(m) >= 5
         /\ Len(m) <= 12
         /\ \A i \in 1..Len(m) : m[i] \in UpperAlnum

quote_currencies ==
    << <<"B","T","C">>, <<"B","N","B">>, <<"E","T","H">>,
       <<"U","S","D","T">>, <<"T","U","S","D">>, <<"B","U","S","D">>,
       <<"D","A","X">>, <<"N","G","N">>, <<"R","U","B">>, <<"T","R","Y">>,
       <<"E","U","R">>, <<"G","B","P">>, <<"Z","A","R">>, <<"U","A","H">>,
       <<"D","A","I">>, <<"B","I","D","R">>, <<"A","U","D">>, <<"U","S">>,
       <<"N","G","N">>, <<"B","R","L">>, <<"B","V","N","D">>,
       <<"V","A","I">> >>

\* str.endswith
EndsWith(s, q) ==
    /\ Len(q) <= Len(s)
    /\ SubSeq(s, Len(s) - Len(q) + 1, Len(s)) = q

\* str.startswith
StartsWith(s, q) ==
    /\ Len(q) <= Len(s)
    /\ SubSeq(s, 1, Len(q)) = q

\* str.replace(q, ''): every non-overlapping occurrence of q, scanning from
\* the left, is removed (q is never empty here)
RECURSIVE StrRemoveAll(_, _)
StrRemoveAll(s, q) ==
    IF Len(s) = 0 THEN <<>>
    ELSE IF StartsWith(s, q)
         THEN StrRemoveAll(SubSeq(s, Len(q) + 1, Len(s)), q)
         ELSE <<Head(s)>> \o StrRemoveAll(Tail(s), q)

\* the index of the first quote currency that is a suffix of m, 0 if none
\* (the for ... break loop of parseMarket)
FirstSuffixIndex(m) ==
    LET hits == {i \in 1..Len(quote_currencies) : EndsWith(m, quote_currencies[i])}
    IN  IF hits = {} THEN 0
        ELSE CHOOSE i \in hits : \A j \in hits : i <= j

\* the outcome of a call: the exception it raised (with its message), or
\* the value it returned
RaiseMsg(e, m) == [raised |-> e, value |-> None, msg |-> m]
Raise(e) == RaiseMsg(e, "")
Return(v) == [raised |-> None, value |-> v, msg |-> ""]
Pending == [raised |-> "pending", value |-> None, msg |-> ""]

parseMarket(m) ==
    IF ~isMarketValid(m)
    THEN \* 'Binance market invalid: ' + None is a TypeError
         IF m = NoneText THEN Raise("TypeError") ELSE Raise("ValueError")
    ELSE LET i == FirstSuffixIndex(m)
             base == IF i = 0 THEN <<"B","T","C">>
                     ELSE StrRemoveAll(m, quote_currencies[i])
             quote == IF i = 0 THEN <<"G","B","P">> ELSE quote_currencies[i]
         IN  IF Len(m) # Len(base) + Len(quote)
             THEN Raise("ValueError")
             ELSE Return([market |-> m, base_currency |-> base,
                          quote_currency |-> quote])

(***************************************************************************)
(* Character classes and regular expressions                               *)
(***************************************************************************)
Digits == {"0", "1", "2", "3", "4", "5", "6", "7", "8", "9"}
Lower ==
    {"a", "b", "c", "d", "e", "f", "g", "h", "i", "j", "k", "l", "m",
     "n", "o", "p", "q", "r", "s", "t", "u", "v", "w", "x", "y", "z"}
Upper ==
    {"A", "B", "C", "D", "E", "F", "G", "H", "I", "J", "K", "L", "M",
     "N", "O", "P", "Q", "R", "S", "T", "U", "V", "W", "X", "Y", "Z"}
\* the range A-z also spans the six characters between Z and a
RangeAz == Upper \cup Lower \cup {"[", "BACKSLASH", "]", "^", "_", "BACKQUOTE"}

\* the text of n characters c
Rep(c, n) == [i \in 1..n |-> c]

\* "$" also matches before a trailing newline (the character NL)
ChopNewline(s) ==
    IF Len(s) > 0 /\ s[Len(s)] = "NL" THEN SubSeq(s, 1, Len(s) - 1) ELSE s

AllIn(s, class) == \A i \in 1..Len(s) : s[i] \in class

\* a key of a dict that is not there
Missing == <<"<missing>">>
\* an attribute of the app object that parser has not set
Unset == <<"<unset>">>

\* re.compile(r"^[A-z0-9]{64,64}$").match(s)
IsBinanceKey(s) ==
    LET t == ChopNewline(s)
    IN  Len(t) = 64 /\ AllIn(t, RangeAz \cup Digits)

binance_valid_urls ==
    {"https://api.binance.com/", "https://testnet.binance.vision/",
     "https://api.binance.com", "https://testnet.binance.vision",
     "https://api.binance.us"}

\* str.strip() of a line read from the key file
Strip(s) == ChopNewline(s)

\* int(text): decimal digits, anything else is a ValueError (-1 here)
RECURSIVE DigitsValue(_)
DigitsValue(s) ==
    IF Len(s) = 0 THEN 0
    ELSE 10 * DigitsValue(SubSeq(s, 1, Len(s) - 1))
         + (CHOOSE d \in 0..9 :
               s[Len(s)] = <<"0","1","2","3","4","5","6","7","8","9">>[d + 1])
PyInt(s) == IF Len(s) > 0 /\ AllIn(s, Digits) THEN DigitsValue(s) ELSE -1

granularity_names ==
    << <<"1","m">>, <<"5","m">>, <<"1","5","m">>, <<"1","h">>, <<"6","h">>,
       <<"1","d">> >>
SUPPORTED_GRANULARITY == <<60, 300, 900, 3600, 21600, 86400>>

\* to_internal_granularity: the dict lookup (0 stands for its KeyError)
to_internal_granularity(g) ==
    LET hits == {i \in 1..Len(granularity_names) : granularity_names[i] = g}
    IN  IF hits = {} THEN 0 ELSE SUPPORTED_GRANULARITY[CHOOSE i \in hits : TRUE]

\* merge_config_and_args(binance_config, args) with args = {}
merge_config_and_args(cfg) == cfg

\* defaultConfigParse(app, config) sets none of the fields modelled here
defaultConfigParse(a, cfg) == a

\* lines 48-72: inline keys are migrated to the file binance.key; the dict
\* is rewritten only when config.json exists
MigrateKeys(cfg, fs) ==
    IF cfg.api_key = Missing /\ cfg.api_secret = Missing
    THEN [raised |-> None, cfg |-> cfg, fs |-> fs]
    ELSE IF cfg.api_key = Missing \/ cfg.api_secret = Missing
    THEN \* the file is opened (and emptied) before the KeyError of line 53
         [raised |-> "KeyError", cfg |-> cfg,
          fs |-> [fs EXCEPT !.keyfile = <<>>]]
    ELSE LET fs2 == [fs EXCEPT !.keyfile = <<cfg.api_key, cfg.api_secret>>]
         IN  IF fs.config_json
             THEN [raised |-> None,
                   cfg |-> [cfg EXCEPT !.api_key = Missing,
                                       !.api_secret = Missing,
                                       !.api_key_file = "binance.key"],
                   fs |-> fs2]
             ELSE [raised |-> None, cfg |-> cfg, fs |-> fs2]

\* lines 74-82: the key and the secret are the first two lines of the file
ReadKeyFile(cfg, fs) ==
    IF cfg.api_key_file = "<missing>"
    THEN [raised |-> None, cfg |-> cfg]
    ELSE IF cfg.api_key_file # "binance.key" \/ fs.keyfile = Missing
    THEN [raised |-> "RuntimeError", cfg |-> cfg]
    ELSE LET line(i) == IF i <= Len(fs.keyfile) THEN Strip(fs.keyfile[i])
                        ELSE <<>>
         IN  [raised |-> None,
              cfg |-> [cfg EXCEPT !.api_key = line(1), !.api_secret = line(2)]]

\* lines 84-113: each field is stored as soon as it has passed its check
StoreCredentials(a, cfg) ==
    IF cfg.api_key = Missing \/ cfg.api_secret = Missing
       \/ cfg.api_url = "<missing>"
    THEN [raised |-> None, msg |-> "", app |-> a]
    ELSE IF ~IsBinanceKey(cfg.api_key)
    THEN [raised |-> "TypeError", msg |-> "Binance API key is invalid",
          app |-> a]
    ELSE LET a1 == [a EXCEPT !.api_key = cfg.api_key]
         IN  IF ~IsBinanceKey(cfg.api_secret)
             THEN [raised |-> "TypeError",
                   msg |-> "Binance API secret is invalid", app |-> a1]
             ELSE LET a2 == [a1 EXCEPT !.api_secret = cfg.api_secret]
                  IN  IF cfg.api_url \notin binance_valid_urls
                      THEN [raised |-> "ValueError",
                            msg |-> "Binance API URL is invalid", app |-> a2]
                      ELSE [raised |-> None, msg |-> "",
                            app |-> [a2 EXCEPT
                                       !.api_url = cfg.api_url,
                                       !.base_currency = <<"B","T","C">>,
                                       !.quote_currency = <<"G","B","P">>]]

\* lines 131-135: the market of the configuration
StoreMarket(a, cfg) ==
    IF cfg.market = Missing
    THEN [raised |-> None, app |-> a]
    ELSE LET r == parseMarket(cfg.market)
         IN  IF r.raised # None THEN [raised |-> r.raised, app |-> a]
             ELSE [raised |-> None,
                   app |-> [a EXCEPT
                              !.market = r.value.market,
                              !.base_currency = r.value.base_currency,
                              !.quote_currency = r.value.quote_currency]]

\* lines 134-135
JoinMarket(a) ==
    IF a.base_currency # <<>> /\ a.quote_currency # <<>>
    THEN [a EXCEPT !.market = a.base_currency \o a.quote_currency]
    ELSE a

\* lines 137-146: a text that is no granularity name goes through int()
StoreGranularity(a, cfg) ==
    IF cfg.granularity.k # "str"
    THEN [raised |-> None, app |-> a]
    ELSE IF to_internal_granularity(cfg.granularity.s) # 0
    THEN [raised |-> None,
          app |-> [a EXCEPT
                     !.granularity = Num(to_internal_granularity(cfg.granularity.s)),
                     !.smart_switch = Num(0)]]
    ELSE IF PyInt(cfg.granularity.s) < 0
    THEN [raised |-> "ValueError", app |-> a]
    ELSE [raised |-> None,
          app |-> [a EXCEPT !.granularity = Num(PyInt(cfg.granularity.s)),
                            !.smart_switch = Num(0)]]

\* parser(app, binance_config): the outcome, the app object and the files
\* as the call leaves them
parser(a, cfg0, fs0) ==
    IF ~cfg0.is_dict
    THEN \* binance_config = {}
         [raised |-> None, msg |-> "", app |-> JoinMarket(a), fs |-> fs0]
    ELSE
    LET m == MigrateKeys(cfg0, fs0) IN
    IF m.raised # None
    THEN [raised |-> m.raised, msg |-> "", app |-> a, fs |-> m.fs]
    ELSE
    LET f == ReadKeyFile(m.cfg, m.fs) IN
    IF f.raised # None
    THEN [raised |-> f.raised, msg |-> "", app |-> a, fs |-> m.fs]
    ELSE
    LET c == StoreCredentials(a, f.cfg) IN
    IF c.raised # None
    THEN [raised |-> c.raised, msg |-> c.msg, app |-> c.app, fs |-> m.fs]
    ELSE
    LET config == merge_config_and_args(f.cfg)
        a3 == defaultConfigParse(c.app, config)
        k == StoreMarket(a3, config)
    IN
    IF k.raised # None
    THEN [raised |-> k.raised, msg |-> "", app |-> k.app, fs |-> m.fs]
    ELSE
    LET g == StoreGranularity(JoinMarket(k.app), config)
    IN  [raised |-> g.raised, msg |-> "", app |-> g.app, fs |-> m.fs]

(***************************************************************************)
(* Inputs of the parser specification                                      *)
(***************************************************************************)
BinKeyGood == Rep("a", 64)
BinKeyShort == Rep("a", 63)
BinSecretGood == Rep("Z", 64)
BinSecretBad == Rep("-", 64)

BinanceConfigs ==
    [is_dict : {TRUE},
     api_key : {Missing, BinKeyGood, BinKeyShort},
     api_secret : {Missing, BinSecretGood, BinSecretBad},
     api_url : {"<missing>", "https://api.binance.com", "https://example.com"},
     api_key_file : {"<missing>", "binance.key", "other.key"},
     market : {Missing, <<"B","T","C","U","S","D","T">>, <<"B","T","C">>},
     granularity : {Absent, [k |-> "str", s |-> <<"1","h">>],
                    [k |-> "str", s |-> <<"7">>],
                    [k |-> "str", s |-> <<"x">>],
                    [k |-> "int", v |-> 3600]}]
    \cup
    [is_dict : {FALSE}, api_key : {Missing}, api_secret : {Missing},
     api_url : {"<missing>"}, api_key_file : {"<missing>"},
     market : {Missing}, granularity : {Absent}]

BinanceFiles ==
    [config_json : BOOLEAN,
     keyfile : {Missing, <<BinKeyGood, BinSecretGood>>,
                <<BinKeyGood, BinSecretBad>>}]

\* the app object before parser has run: no credential is set
AppBefore ==
    [api_key |-> Unset, api_secret |-> Unset, api_url |-> "<unset>",
     base_currency |-> <<>>, quote_currency |-> <<>>, market |-> <<>>,
     granularity |-> Absent, smart_switch |-> Absent]

BinIdle ==
    /\ binCfg \in [is_dict : {FALSE}, api_key : {Missing},
                   api_secret : {Missing}, api_url : {"<missing>"},
                   api_key_file : {"<missing>"}, market : {Missing},
                   granularity : {Absent}]
    /\ files = [config_json |-> FALSE, keyfile |-> Missing]
    /\ app = AppBefore
    /\ binOut = [raised |-> "pending", msg |-> ""]

(***************************************************************************)
(* coinbase_pro/api.py: values                                             *)
(*                                                                         *)
(* A pandas DataFrame, a dict or a list is [type, rows]: rows is the       *)
(* sequence of its records (a JSON object is one record).                  *)
(***************************************************************************)
Frame(rows) == [type |-> "DataFrame", rows |-> rows]
EmptyFrame == Frame(<<>>)
EmptyDict == [type |-> "dict", rows |-> <<>>]
PyNone == [type |-> "NoneType", rows |-> <<>>]

\* len(x) of a frame, dict or list (a decoded JSON object has keys)
PyLen(x) == Len(x.rows)

\* "c" in frame: the frame has column c when some row carries the key
HasColumn(rows, c) == \E i \in 1..Len(rows) : rows[i][c].k # "absent"

\* Series.astype(float): numeric text becomes a float, None and missing
\* cells become NaN
AsFloat(cell) == IF cell.k = "num" THEN cell ELSE NaN

\* the records in the order of delivery
Reverse_AsDelivered(s) == s

\* df.iloc[::-1]
Reverse(s) == [i \in 1..Len(s) |-> s[Len(s) + 1 - i]]

\* the accepted values of getOrders' status argument
OrderStatuses == {"open", "pending", "done", "active", "all"}

\* the amount columns getOrders selects from a response that is not "open"
\* (created_at, product_id, side, type and status are on every order)
DoneColumns == {"filled_size", "executed_value", "fill_fees"}

\* the amount columns getOrders selects for status "open"
OpenColumns == {"size", "price"}

\* the price without the division
OrderPrice_Undivided(fs, ev) ==
    IF fs.k = "num" /\ fs.v > 0 THEN ev ELSE Num(0)

\* lines 307-315: executed_value / filled_size when filled_size > 0, else 0
OrderPrice(fs, ev) ==
    IF fs.k = "num" /\ fs.v > 0
    THEN IF ev.k = "num" THEN Num((ev.v * 100) \div (fs.v * 100)) ELSE NaN
    ELSE Num(0)

\* one raw order as the record of the frame of lines 299-385:
\* size is specified_funds, filled is filled_size, fees is fill_fees
OrderRow(raw) ==
    LET fs == AsFloat(raw.filled_size)
        sf == AsFloat(raw.specified_funds)
        ev == AsFloat(raw.executed_value)
        ff == AsFloat(raw.fill_fees)
    IN  [created_at |-> raw.created_at, market |-> raw.product_id,
         action |-> raw.side, type |-> raw.type, size |-> sf, filled |-> fs,
         fees |-> ff, price |-> OrderPrice(fs, ev), status |-> raw.status]

\* lines 394-407: the market, action and status filters
PassesFilters(row, mkt, act, status) ==
    /\ (mkt # "" => row.market = mkt)
    /\ (act # "" => row.action = act)
    /\ (status # "all" => row.status = status)

\* line 413: df["size"].fillna(df["filled"])
SizeFromFilled(row) ==
    [row EXCEPT !.size = IF row.size.k = "nan" THEN row.filled ELSE row.size]

\* the body of getOrders' try block (lines 245-415) on the frame resp:
\* the normalised frame, or the exception the block raises
OrdersBody(resp, mkt, act, status) ==
    IF PyLen(resp) = 0 THEN Return(EmptyFrame)
    ELSE IF status = "open"
    THEN \* the open frame has no filled_size column: line 301 raises
         \* (a missing selected column raises at line 247, float() of a
         \* column of several rows raises at line 258)
         IF \E c \in OpenColumns : ~HasColumn(resp.rows, c)
         THEN Raise("KeyError")
         ELSE IF Len(resp.rows) > 1 THEN Raise("TypeError")
         ELSE Raise("KeyError")
    ELSE IF \E c \in DoneColumns : ~HasColumn(resp.rows, c)
    THEN Raise("KeyError")
    ELSE LET rows == [i \in 1..Len(resp.rows) |-> OrderRow(resp.rows[i])]
             Keep(r) == PassesFilters(r, mkt, act, status)
             kept == SelectSeq(rows, Keep)
             rev == Reverse(kept)
         IN  Return(Frame([i \in 1..Len(rev) |-> SizeFromFilled(rev[i])]))

\* lines 242-418: try: ... except: return pd.DataFrame()
OrdersOf(resp, mkt, act, status) ==
    LET r == OrdersBody(resp, mkt, act, status)
    IN  IF r.raised # None THEN Return(EmptyFrame) ELSE r

(***************************************************************************)
(* coinbase_pro/api.py: the transport                                      *)
(*                                                                         *)
(* A reply is what requests.get/post/delete hands back or raises:          *)
(*   kind     "http", or the exception "ConnectionError" / "Timeout"       *)
(*   status   the HTTP status code                                         *)
(*   decodes  whether resp.json() succeeds                                 *)
(*   is_list  whether the JSON document is a list (else an object)         *)
(*   msg, message   the keys of an error object, "<missing>" if not there  *)
(*   rows     the records of the document                                  *)
(***************************************************************************)
SkewMessage == "request timestamp expired"
OtherMessage == "invalid signature"

\* the timeout handed to requests.get/post/delete: none is given, and
\* requests then waits without limit
RequestTimeout == None

HttpReply(status, decodes, is_list, msg, message, rows) ==
    [kind |-> "http", status |-> status, decodes |-> decodes,
     is_list |-> is_list, msg |-> msg, message |-> message, rows |-> rows]

TransportError(kind) ==
    [kind |-> kind, status |-> 0, decodes |-> FALSE, is_list |-> FALSE,
     msg |-> "<missing>", message |-> "<missing>", rows |-> <<>>]

\* the exceptions requests can raise for a request sent with this timeout:
\* a read timeout needs a finite timeout
TransportErrors(timeout) ==
    {TransportError("ConnectionError")}
    \cup (IF timeout = None THEN {} ELSE {TransportError("Timeout")})

\* lines 605-610: "msg" wins over "message"; a list has neither
resp_message(r) ==
    IF r.is_list THEN ""
    ELSE IF r.msg # "<missing>" THEN r.msg
    ELSE IF r.message # "<missing>" THEN r.message
    ELSE ""

\* what authAPI hands to its caller, with the branch it took and what it
\* logged ("" when nothing)
ApiOutcome(o, path, logged) == [out |-> o, path |-> path, logged |-> logged]

\* AuthAPI.handle_api_error (lines 668-682)
handle_api_error(die, debug, reason) ==
    IF die
    THEN ApiOutcome(Raise("SystemExit"), "transport", "")
    ELSE ApiOutcome(Return(EmptyFrame), "transport",
                    IF debug THEN "debug" ELSE "info")

\* authAPI with the generic test of the status ahead of the test for the
\* expired timestamp
AuthAPI_onReply_GenericFirst(die, debug, r) ==
    IF r.kind # "http"
    THEN handle_api_error(die, debug, r.kind)
    ELSE IF ~r.decodes
    THEN ApiOutcome(Raise("UnboundLocalError"), "crash", "")
    ELSE IF r.status # 200 /\ (die \/ r.status = 401)
    THEN ApiOutcome(Raise("AttributeError"), "raise", "")
    ELSE IF r.status = 401 /\ resp_message(r) = SkewMessage
    THEN ApiOutcome(Return(EmptyDict), "skew", "error: hint NTP")
    ELSE IF r.status # 200
    THEN ApiOutcome(Return(EmptyFrame), "log", "error")
    ELSE ApiOutcome(Return(Frame(r.rows)), "ok", "")

\* AuthAPI.authAPI from the reply on (lines 603-666).  json is a local
\* name of the function: when resp.json() fails it is unbound, and once it
\* holds the document it has no attribute "decoder", so that matching an
\* exception against "except json.decoder.JSONDecodeError" raises instead
AuthAPI_onReply(die, debug, r) ==
    IF r.kind # "http"
    THEN handle_api_error(die, debug, r.kind)
    ELSE IF ~r.decodes
    THEN ApiOutcome(Raise("UnboundLocalError"), "crash", "")
    ELSE IF r.status = 401 /\ resp_message(r) = SkewMessage
    THEN ApiOutcome(Return(EmptyDict), "skew", "error: hint NTP")
    ELSE IF r.status # 200
    THEN IF die \/ r.status = 401
         THEN ApiOutcome(Raise("AttributeError"), "raise", "")
         ELSE ApiOutcome(Return(EmptyFrame), "log", "error")
    ELSE \* a list becomes one row per element, an object one row
         ApiOutcome(Return(Frame(r.rows)), "ok", "")

\* PublicAPI.handle_api_error (lines 850-864)
PublicAPI_handle_api_error(die, debug, reason) ==
    IF die
    THEN ApiOutcome(Raise("SystemExit"), "transport", "")
    ELSE ApiOutcome(Return(EmptyDict), "transport",
                    IF debug THEN "debug" ELSE "info")

\* PublicAPI.authAPI from the reply on (lines 826-848); json is the module
PublicAPI_onReply(die, debug, r) ==
    IF r.kind # "http"
    THEN PublicAPI_handle_api_error(die, debug, r.kind)
    ELSE IF ~r.decodes
    THEN PublicAPI_handle_api_error(die, debug, "JSONDecodeError")
    ELSE IF r.status # 200
    THEN IF r.is_list THEN ApiOutcome(Raise("TypeError"), "crash", "")
         ELSE IF r.message = "<missing>"
         THEN ApiOutcome(Raise("KeyError"), "crash", "")
         ELSE IF die THEN ApiOutcome(Raise("Exception"), "raise", "")
         ELSE ApiOutcome(Return(EmptyDict), "log", "error")
    ELSE ApiOutcome(Return([type |-> IF r.is_list THEN "list" ELSE "dict",
                            rows |-> r.rows]), "ok", "")

\* authAPI's checks of its arguments (lines 586-593, 811-818); "<int>"
\* stands for an argument that is not a str
AuthAPI_methods == {"DELETE", "GET", "POST"}
PublicAPI_methods == {"GET", "POST"}

\* the checks without the one of the method's name
authAPI_argument_error_AnyMethod(client, method, uri) ==
    IF method = "<int>" THEN "TypeError"
    ELSE IF uri = "<int>" THEN "TypeError"
    ELSE None

authAPI_argument_error(client, method, uri) ==
    IF method = "<int>" THEN "TypeError"
    ELSE IF method \notin (IF client = "auth" THEN AuthAPI_methods
                           ELSE PublicAPI_methods)
    THEN "TypeError"
    ELSE IF uri = "<int>" THEN "TypeError"
    ELSE None

(***************************************************************************)
(* coinbase_pro/api.py: construction and argument checks                   *)
(***************************************************************************)
HexLower == {"a", "b", "c", "d", "e", "f"} \cup Digits

\* re.compile(r"^[a-f0-9]{32,32}$").match(s)
IsCoinbaseKey(s) ==
    LET t == ChopNewline(s) IN Len(t) = 32 /\ AllIn(t, HexLower)

\* re.compile(r"^[A-z0-9+\/]+==$").match(s)
IsCoinbaseSecret(s) ==
    LET t == ChopNewline(s)
    IN  /\ Len(t) >= 3
        /\ SubSeq(t, Len(t) - 1, Len(t)) = <<"=", "=">>
        /\ AllIn(SubSeq(t, 1, Len(t) - 2), RangeAz \cup Digits \cup {"+", "/"})

\* re.compile(r"^[a-z0-9]{10,12}$").match(s)
IsCoinbasePassphrase(s) ==
    LET t == ChopNewline(s)
    IN  Len(t) >= 10 /\ Len(t) <= 12 /\ AllIn(t, Lower \cup Digits)

\* re.compile(r"^[a-f0-9\-]{36,36}$").match(s)
IsAccountId(s) ==
    LET t == ChopNewline(s) IN Len(t) = 36 /\ AllIn(t, HexLower \cup {"-"})

coinbase_valid_urls ==
    {"https://api.pro.coinbase.com", "https://api.pro.coinbase.com/",
     "https://public.sandbox.pro.coinbase.com",
     "https://public.sandbox.pro.coinbase.com/"}

\* lines 73-74: the URL is stored with a trailing "/"
WithSlash(url) ==
    IF url = "https://api.pro.coinbase.com" THEN "https://api.pro.coinbase.com/"
    ELSE IF url = "https://public.sandbox.pro.coinbase.com"
    THEN "https://public.sandbox.pro.coinbase.com/"
    ELSE url

\* the characters of the markets of the model
MarketChars(m) ==
    CASE m = "BTC-GBP" -> <<"B","T","C","-","G","B","P">>
      [] m = "ETH-USD" -> <<"E","T","H","-","U","S","D">>
      [] m = "BTCGBP" -> <<"B","T","C","G","B","P">>
      [] m = "btc-gbp" -> <<"b","t","c","-","g","b","p">>
      [] OTHER -> <<>>

\* AuthAPIBase._isMarketValid: ^[1-9A-Z]{2,5}\-[1-9A-Z]{2,5}$
IsCoinbaseMarket(m) ==
    LET t == ChopNewline(MarketChars(m))
        class == Upper \cup (Digits \ {"0"})
    IN  \E i \in 1..Len(t) :
            /\ t[i] = "-"
            /\ i - 1 >= 2 /\ i - 1 <= 5
            /\ Len(t) - i >= 2 /\ Len(t) - i <= 5
            /\ AllIn(SubSeq(t, 1, i - 1), class)
            /\ AllIn(SubSeq(t, i + 1, Len(t)), class)

\* an AuthAPI object that does not exist (yet)
NoAuth ==
    [built |-> FALSE, api_key |-> Unset, api_secret |-> Unset,
     api_passphrase |-> Unset, api_url |-> "<unset>", debug |-> FALSE,
     die_on_api_error |-> FALSE]

\* AuthAPI.handle_init_error (lines 96-102)
handle_init_error(debug, err) ==
    IF debug THEN RaiseMsg("TypeError", err) ELSE RaiseMsg("SystemExit", err)

\* AuthAPI.__init__ (lines 37-94): the outcome, and the object when the
\* constructor returns; debug is False while __init__ runs
AuthAPI_init(key, secret, passphrase, url) ==
    IF url \notin coinbase_valid_urls
    THEN RaiseMsg("ValueError", "Coinbase Pro API URL is invalid")
    ELSE IF ~IsCoinbaseKey(key)
    THEN handle_init_error(FALSE, "Coinbase Pro API key is invalid")
    ELSE IF ~IsCoinbaseSecret(secret)
    THEN handle_init_error(FALSE, "Coinbase Pro API secret is invalid")
    ELSE IF ~IsCoinbasePassphrase(passphrase)
    THEN handle_init_error(FALSE, "Coinbase Pro API passphrase is invalid")
    ELSE Return([built |-> TRUE, api_key |-> key, api_secret |-> secret,
                 api_passphrase |-> passphrase, api_url |-> WithSlash(url),
                 debug |-> FALSE, die_on_api_error |-> FALSE])

MINIMUM_TRADE_AMOUNT == 10

RECURSIVE Pow10(_)
Pow10(n) == IF n = 0 THEN 1 ELSE 10 * Pow10(n - 1)

\* amounts are integers in units of 10 ** -AmountDigits
AmountDigits == 3
AmountUnit == Pow10(AmountDigits)

\* n thousandths as an amount
Milli(n) == (n * AmountUnit) \div 1000

\* the number of characters after the first "." of an increment
\* (lines 559-562)
nb_digits(inc) ==
    LET dots == {i \in 1..Len(inc) : inc[i] = "."}
    IN  IF dots = {} THEN 0
        ELSE LET d == CHOOSE i \in dots : \A j \in dots : i <= j
                 later == {j \in dots : j > d}
             IN  IF later = {} THEN Len(inc) - d
                 ELSE (CHOOSE j \in later : \A l \in later : j <= l) - d - 1

\* round(amount * 10 ** n) / 10 ** n: to the nearest instead of down
FloorDigits_Nearest(amount, n) ==
    IF n >= AmountDigits THEN amount
    ELSE ((amount + 5 * Pow10(AmountDigits - n - 1))
            \div Pow10(AmountDigits - n)) * Pow10(AmountDigits - n)

\* floor(amount * 10 ** n) / 10 ** n on an amount in units of
\* 10 ** -AmountDigits
FloorDigits(amount, n) ==
    IF n >= AmountDigits THEN amount
    ELSE (amount \div Pow10(AmountDigits - n)) * Pow10(AmountDigits - n)

\* marketBaseIncrement / marketQuoteIncrement after the product lookup
\* (lines 554-564, 571-581): without the column the amount passes through
Quantize(product, column, amount) ==
    IF PyLen(product) = 0 THEN amount
    ELSE IF product.rows[1][column] = Missing THEN amount
    ELSE FloorDigits(amount, nb_digits(product.rows[1][column]))

(***************************************************************************)
(* coinbase_pro/api.py: the operations                                     *)
(*                                                                         *)
(* A call is [client, name, market, action, status, amount, price,         *)
(* method, uri, account, granularity].  An operation runs up to a request  *)
(* (OpBegin), and from authAPI's outcome on (OpResume), to the next        *)
(* request or to its end.                                                  *)
(***************************************************************************)
NoPayload ==
    [product_id |-> "", type |-> "", side |-> "", amount |-> Absent,
     price |-> Absent]

\* a request as authAPI sends it: the flags are those of the object whose
\* authAPI is called, kind names the resource, stage the place in the
\* operation
Request(client, die, debug, method, uri, kind, payload, stage) ==
    [client |-> client, die |-> die, debug |-> debug, method |-> method,
     uri |-> uri, kind |-> kind, payload |-> payload, stage |-> stage]

NoRequest == Request("", FALSE, FALSE, "", "", "", NoPayload, "")

Done(o) == [done |-> TRUE, out |-> o, req |-> NoRequest]
Send(q) == [done |-> FALSE, out |-> Pending, req |-> q]

IsNumeric(cell) == cell.k = "num"

\* the order of marketBuy / marketSell / limitSell (lines 454-459,
\* 484-489, 516-522)
Order(c, amount) ==
    [product_id |-> c.market,
     type |-> IF c.name = "limitSell" THEN "limit" ELSE "market",
     side |-> IF c.name = "marketBuy" THEN "buy" ELSE "sell",
     amount |-> Num(amount),
     price |-> IF c.name = "limitSell" THEN c.price ELSE Absent]

\* the operations of AuthAPI up to their first request
AuthBegin(c, a) ==
    LET self(method, uri, kind, stage) ==
            Send(Request("auth", a.die_on_api_error, a.debug, method, uri,
                         kind, NoPayload, stage))
    IN
    CASE c.name = "authAPI" ->
           IF authAPI_argument_error("auth", c.method, c.uri) # None
           THEN Done(Raise(authAPI_argument_error("auth", c.method, c.uri)))
           ELSE self(c.method, c.uri, "other", "main")
      [] c.name = "getAccounts" -> self("GET", "accounts", "accounts", "main")
      [] c.name = "getAccount" ->
           IF ~IsAccountId(c.account)
           THEN Done(handle_init_error(a.debug, "Coinbase Pro account is invalid"))
           ELSE self("GET", "accounts/id", "account", "main")
      [] c.name = "getFees" -> self("GET", "fees", "fees", "main")
      [] c.name = "getTime" -> self("GET", "time", "time", "main")
      [] c.name = "getOrders" ->
           IF c.market # "" /\ ~IsCoinbaseMarket(c.market)
           THEN Done(RaiseMsg("ValueError", "Coinbase Pro market is invalid."))
           ELSE IF c.action # "" /\ c.action \notin {"buy", "sell"}
           THEN Done(RaiseMsg("ValueError", "Invalid order action."))
           ELSE IF c.status \notin OrderStatuses
           THEN Done(RaiseMsg("ValueError", "Invalid order status."))
           ELSE self("GET", "orders?status", "orders", "main")
      [] c.name = "marketBuy" ->
           IF ~IsCoinbaseMarket(c.market)
           THEN Done(RaiseMsg("ValueError", "Coinbase Pro market is invalid."))
           ELSE IF ~IsNumeric(c.amount)
           THEN Done(RaiseMsg("TypeError", "The funding amount is not numeric."))
           ELSE IF c.amount.v < MINIMUM_TRADE_AMOUNT * AmountUnit
           THEN Done(RaiseMsg("ValueError", "Trade amount is too small"))
           ELSE self("GET", "products/market", "product", "lookup")
      [] c.name = "marketSell" ->
           IF ~IsCoinbaseMarket(c.market)
           THEN Done(RaiseMsg("ValueError", "Coinbase Pro market is invalid."))
           ELSE IF ~IsNumeric(c.amount)
           THEN Done(RaiseMsg("TypeError", "The crypto amount is not numeric."))
           ELSE self("GET", "products/market", "product", "lookup")
      [] c.name = "limitSell" ->
           IF ~IsCoinbaseMarket(c.market)
           THEN Done(RaiseMsg("ValueError", "Coinbase Pro market is invalid."))
           ELSE IF ~IsNumeric(c.amount)
           THEN Done(RaiseMsg("TypeError", "The crypto amount is not numeric."))
           ELSE IF ~IsNumeric(c.price)
           THEN Done(RaiseMsg("TypeError",
                              "The future crypto price is not numeric."))
           ELSE self("GET", "products/market", "product", "lookup")
      [] c.name = "cancelOrders" ->
           IF ~IsCoinbaseMarket(c.market)
           THEN Done(RaiseMsg("ValueError", "Coinbase Pro market is invalid."))
           ELSE \* model = AuthAPI(...): a new object, its flags are False
                IF AuthAPI_init(a.api_key, a.api_secret, a.api_passphrase,
                                a.api_url).raised # None
                THEN Done(Return(EmptyFrame))
                ELSE Send(Request("auth", FALSE, FALSE, "DELETE", "orders",
                                  "cancel", NoPayload, "main"))

\* "0.0000000000000000" (line 138)
NilBalance == <<"0", ".">> \o Rep("0", 16)

\* the operations of AuthAPI from the outcome r of their authAPI call on;
\* every "except:" catches whatever was raised, SystemExit included
AuthResume(c, a, stage, r) ==
    CASE c.name = "authAPI" -> Done(r)
      [] c.name = "getAccounts" ->
           IF r.raised # None THEN Done(Return(EmptyFrame))
           ELSE IF PyLen(r.value) = 0 THEN Done(Return(EmptyFrame))
           ELSE LET NonZero(row) == row.balance # NilBalance
                IN  Done(Return(Frame(SelectSeq(r.value.rows, NonZero))))
      [] c.name = "getAccount" ->
           IF r.raised # None THEN Done(Return(EmptyFrame)) ELSE Done(r)
      [] c.name = "getFees" ->
           IF r.raised # None THEN Done(Return(EmptyFrame))
           ELSE IF PyLen(r.value) = 0 THEN Done(Return(EmptyFrame))
           ELSE Done(Return(Frame(
                    [i \in 1..Len(r.value.rows) |->
                        [r.value.rows[i] EXCEPT !.market = c.market]])))
      [] c.name = "getTime" ->
           \* an empty result has no "epoch": the KeyError is caught
           IF r.raised # None \/ PyLen(r.value) = 0 THEN Done(Return(PyNone))
           ELSE Done(Return([type |-> "datetime", rows |-> r.value.rows]))
      [] c.name = "getOrders" ->
           IF r.raised # None THEN Done(Return(EmptyFrame))
           ELSE Done(OrdersOf(r.value, c.market, c.action, c.status))
      [] c.name \in {"marketBuy", "marketSell", "limitSell"} ->
           IF r.raised # None THEN Done(Return(EmptyFrame))
           ELSE IF stage = "main" THEN Done(r)
           ELSE LET column == IF c.name = "marketBuy" THEN "quote_increment"
                              ELSE "base_increment"
                    order == Order(c, Quantize(r.value, column, c.amount.v))
                IN  IF AuthAPI_init(a.api_key, a.api_secret,
                                    a.api_passphrase, a.api_url).raised # None
                    THEN Done(Return(EmptyFrame))
                    ELSE Send(Request("auth", FALSE, FALSE, "POST", "orders",
                                      "order", order, "main"))
      [] c.name = "cancelOrders" ->
           IF r.raised # None THEN Done(Return(EmptyFrame)) ELSE Done(r)

\* the operations of PublicAPI up to their request
PublicBegin(c, p) ==
    LET self(method, uri, kind) ==
            Send(Request("public", p.die_on_api_error, p.debug, method, uri,
                         kind, NoPayload, "main"))
    IN
    CASE c.name = "authAPI" ->
           IF authAPI_argument_error("public", c.method, c.uri) # None
           THEN Done(Raise(authAPI_argument_error("public", c.method, c.uri)))
           ELSE self(c.method, c.uri, "other")
      [] c.name = "getTime" -> self("GET", "time", "time")
      [] c.name = "getTicker" ->
           IF ~IsCoinbaseMarket(c.market)
           THEN Done(RaiseMsg("TypeError", "Coinbase Pro market required."))
           ELSE self("GET", "products/market/ticker", "ticker")
      [] c.name = "getHistoricalData" ->
           IF ~IsCoinbaseMarket(c.market)
           THEN Done(RaiseMsg("TypeError", "Coinbase Pro market required."))
           ELSE IF ~IsNumeric(c.granularity)
           THEN Done(RaiseMsg("TypeError", "Granularity integer required."))
           ELSE IF \A i \in 1..Len(SUPPORTED_GRANULARITY) :
                       SUPPORTED_GRANULARITY[i] # c.granularity.v
           THEN Done(RaiseMsg("TypeError", "Granularity options"))
           ELSE self("GET", "products/market/candles", "candles")

\* the operations of PublicAPI from the outcome r of their authAPI call
\* on; only getTime catches what authAPI raises
PublicResume(c, r) ==
    CASE c.name = "authAPI" -> Done(r)
      [] c.name = "getTime" ->
           IF r.raised # None \/ PyLen(r.value) = 0 THEN Done(Return(PyNone))
           ELSE Done(Return([type |-> "datetime", rows |-> r.value.rows]))
      [] c.name = "getTicker" ->
           IF r.raised # None THEN Done(r)
           ELSE Done(Return([type |-> "tuple", rows |-> r.value.rows]))
      [] c.name = "getHistoricalData" ->
           IF r.raised # None THEN Done(r)
           ELSE LET rev == Reverse(r.value.rows)
                IN  Done(Return(Frame(
                        [i \in 1..Len(rev) |->
                            [date |-> rev[i].epoch, market |-> c.market,
                             granularity |-> c.granularity.v,
                             close |-> rev[i].close]])))

OpBegin(c, a, p) ==
    IF c.client = "auth" THEN AuthBegin(c, a) ELSE PublicBegin(c, p)

OpResume(c, a, stage, r) ==
    IF c.client = "auth" THEN AuthResume(c, a, stage, r)
    ELSE PublicResume(c, r)

\* authAPI of the object the request went through, from the reply on
authAPI_onReply(q, r) ==
    IF q.client = "auth" THEN AuthAPI_onReply(q.die, q.debug, r)
    ELSE PublicAPI_onReply(q.die, q.debug, r)

(***************************************************************************)
(* Inputs of the getOrders specification                                   *)
(***************************************************************************)
MaxOrders == 2

M1 == "BTC-GBP"
M2 == "ETH-USD"

\* the amounts of a raw order: filled_size, fill_fees, specified_funds.
\* specified_funds is absent from manually placed limit orders, and an
\* amount may be null
RawAmounts ==
    { <<Num(2), Num(1), Num(10)>>, <<Num(0), Num(1), Num(10)>>,
      <<Num(2), Num(1), Absent>>,  <<Num(2), Null, Num(10)>>,
      <<Null, Num(1), Absent>>,    <<Null, Null, Absent>> }

\* the product and side of a raw order
RawKinds == { <<M1, "buy">>, <<M1, "sell">>, <<M2, "buy">> }

RawOrder(kd, st, am) ==
    [created_at |-> 0, product_id |-> kd[1], side |-> kd[2],
     type |-> "market", status |-> st,
     filled_size |-> am[1], executed_value |-> Num(10),
     fill_fees |-> am[2], specified_funds |-> am[3],
     size |-> Num(3), price |-> Num(7)]

\* raw orders of a well-formed response: every product, side and status
\* with all amounts present, and every case of the amounts on the done
\* buy orders of M1
RawOrders ==
    {RawOrder(kd, st, <<Num(2), Num(1), Num(10)>>) :
        kd \in RawKinds, st \in {"open", "done"}}
    \cup {RawOrder(<<M1, "buy">>, "done", am) : am \in RawAmounts}

\* the exchange delivers newest first: row i carries time MaxOrders + 1 - i
Stamp(rows) ==
    [i \in 1..Len(rows) |-> [rows[i] EXCEPT !.created_at = Len(rows) + 1 - i]]

OrderResponses ==
    UNION {{Stamp(rows) : rows \in [1..n -> RawOrders]} : n \in 1..MaxOrders}

OrdersIdle ==
    /\ ordResp = EmptyFrame
    /\ ordArgs = [market |-> "", action |-> "", status |-> "all"]
    /\ ordOut = Pending

(***************************************************************************)
(* Inputs of the client specification                                      *)
(***************************************************************************)
NotANumber == [k |-> "str", v |-> 0]

NoCall ==
    [client |-> "", name |-> "", market |-> "", action |-> "",
     status |-> "all", amount |-> Absent, price |-> Absent, method |-> "",
     uri |-> "", account |-> <<>>, granularity |-> Absent]

CallMarkets == {"BTC-GBP", "BTCGBP"}

AuthCalls ==
    {[NoCall EXCEPT !.client = "auth", !.name = "authAPI", !.method = m,
                    !.uri = "accounts"] :
        m \in {"GET", "POST", "DELETE", "PUT", "<int>"}}
    \cup {[NoCall EXCEPT !.client = "auth", !.name = "authAPI",
                         !.method = "GET", !.uri = "<int>"]}
    \cup {[NoCall EXCEPT !.client = "auth", !.name = n] :
            n \in {"getAccounts", "getTime"}}
    \cup {[NoCall EXCEPT !.client = "auth", !.name = "getAccount",
                         !.account = id] :
            id \in {Rep("a", 36), Rep("a", 35)}}
    \cup {[NoCall EXCEPT !.client = "auth", !.name = "getFees",
                         !.market = m] : m \in {"", "BTC-GBP"}}
    \cup {[NoCall EXCEPT !.client = "auth", !.name = "getOrders",
                         !.market = m, !.action = a, !.status = st] :
            m \in {"", "BTC-GBP", "btc-gbp"}, a \in {"", "buy", "hold"},
            st \in {"all", "open", "done", "closed"}}
    \cup {[NoCall EXCEPT !.client = "auth", !.name = "marketBuy",
                         !.market = m, !.amount = q] :
            m \in CallMarkets,
            q \in {Num(Milli(12345)), Num(Milli(5000)), NotANumber}}
    \cup {[NoCall EXCEPT !.client = "auth", !.name = "marketSell",
                         !.market = m, !.amount = q] :
            m \in CallMarkets, q \in {Num(Milli(12345)), NotANumber}}
    \cup {[NoCall EXCEPT !.client = "auth", !.name = "limitSell",
                         !.market = m, !.amount = q, !.price = f] :
            m \in CallMarkets, q \in {Num(Milli(12345)), NotANumber},
            f \in {Num(Milli(7000)), NotANumber}}
    \cup {[NoCall EXCEPT !.client = "auth", !.name = "cancelOrders",
                         !.market = m] : m \in CallMarkets}

PublicCalls ==
    {[NoCall EXCEPT !.client = "public", !.name = "authAPI", !.method = m,
                    !.uri = "time"] :
        m \in {"GET", "POST", "DELETE", "<int>"}}
    \cup {[NoCall EXCEPT !.client = "public", !.name = "getTime"]}
    \cup {[NoCall EXCEPT !.client = "public", !.name = "getTicker",
                         !.market = m] : m \in CallMarkets}
    \cup {[NoCall EXCEPT !.client = "public", !.name = "getHistoricalData",
                         !.market = m, !.granularity = g] :
            m \in CallMarkets, g \in {Num(3600), Num(7), NotANumber}}

Calls == AuthCalls \cup PublicCalls

\* the arguments of AuthAPI(...) tried by the caller
KeyGood == Rep("a", 32)
SecretGood == <<"Q", "U", "J", "D", "=", "=">>
PassphraseGood == Rep("p", 10)

ConstructorArgs ==
    [key : {KeyGood, Rep("g", 32), <<>>},
     secret : {SecretGood, <<"Q", "U", "J", "D">>},
     passphrase : {PassphraseGood, Rep("p", 9)},
     url : {"https://api.pro.coinbase.com",
            "https://public.sandbox.pro.coinbase.com/",
            "https://example.com"}]

\* one raw order of the exchange with the given status
SampleOrder(st) ==
    [created_at |-> 1, product_id |-> M1, side |-> "buy", type |-> "market",
     status |-> st, filled_size |-> Num(2), executed_value |-> Num(10),
     fill_fees |-> Num(1), specified_funds |-> Num(10), size |-> Num(3),
     price |-> Num(7)]

Body(is_list, rows) == [is_list |-> is_list, rows |-> rows]

\* balances as the exchange may write them
SomeBalance == <<"1", ".", "5">> \o Rep("0", 15)

Balances ==
    {NilBalance, SomeBalance, <<"0">>, <<"0", ".", "0", "0">>,
     <<"0", ".", "0", "1">>}

\* the documents the exchange answers with a status of 200, by resource
OkBodies(kind) ==
    CASE kind = "accounts" ->
           {Body(TRUE, <<>>)}
           \cup {Body(TRUE, <<[currency |-> "BTC", balance |-> b]>>) :
                    b \in Balances}
           \cup {Body(TRUE, <<[currency |-> "BTC", balance |-> NilBalance],
                              [currency |-> "GBP", balance |-> SomeBalance]>>)}
      [] kind = "account" ->
           {Body(FALSE, <<[currency |-> "GBP", balance |-> SomeBalance]>>)}
      [] kind = "fees" ->
           {Body(FALSE, <<[maker_fee_rate |-> "0.005",
                           taker_fee_rate |-> "0.005", usd_volume |-> "0",
                           market |-> ""]>>)}
      [] kind = "time" -> {Body(FALSE, <<[epoch |-> 5]>>)}
      [] kind = "orders" ->
           {Body(TRUE, <<>>), Body(TRUE, <<SampleOrder("done")>>),
            Body(TRUE, <<SampleOrder("open")>>),
            Body(TRUE, Stamp(<<SampleOrder("done"),
                               [SampleOrder("done") EXCEPT !.side = "sell"]>>))}
      [] kind = "product" ->
           {Body(FALSE, <<[base_increment |-> <<"0", ".", "0", "1">>,
                           quote_increment |-> <<"0", ".", "0", "1">>]>>),
            Body(FALSE, <<[base_increment |-> Missing,
                           quote_increment |-> Missing]>>)}
      [] kind = "order" -> {Body(FALSE, <<[id |-> "o1"]>>)}
      [] kind = "cancel" -> {Body(TRUE, <<>>), Body(TRUE, <<[id |-> "o1"]>>)}
      [] kind = "ticker" -> {Body(FALSE, <<[time |-> 5, price |-> 7]>>)}
      [] kind = "candles" ->
           {Body(TRUE, <<>>),
            Body(TRUE, <<[epoch |-> 2, close |-> 7], [epoch |-> 1, close |-> 6]>>)}
      [] OTHER -> {Body(FALSE, <<[id |-> "x"]>>), Body(TRUE, <<>>)}

ErrorStatuses == {400, 401, 500}

\* the error objects of the exchange as <<msg, message>>: the text is
\* under one of the keys, under both, or under neither
ErrorTexts ==
    { <<"<missing>", SkewMessage>>, <<"<missing>", OtherMessage>>,
      <<SkewMessage, "<missing>">>, <<OtherMessage, "<missing>">>,
      <<"<missing>", "<missing>">>, <<OtherMessage, SkewMessage>> }

\* everything the network can do to the request q, short of never answering
Replies(q) ==
    TransportErrors(RequestTimeout)
    \cup {HttpReply(200, TRUE, b.is_list, "<missing>", "<missing>", b.rows) :
            b \in OkBodies(q.kind)}
    \cup {HttpReply(st, FALSE, FALSE, "<missing>", "<missing>", <<>>) :
            st \in ErrorStatuses \cup {200}}
    \cup {HttpReply(st, TRUE, FALSE, t[1], t[2], <<>>) :
            st \in ErrorStatuses, t \in ErrorTexts}

NoApis == <<>>

ClientIdle ==
    /\ auth = NoAuth
    /\ pub = [debug |-> FALSE, die_on_api_error |-> FALSE]
    /\ call = NoCall
    /\ pc = "idle"
    /\ req = NoRequest
    /\ sent = <<>>
    /\ out = Pending
    /\ apis = NoApis

(***************************************************************************)
(* Specification of parseMarket: the symbol is drawn, then parsed.         *)
(***************************************************************************)
(* Inputs of the quantizer specification                                   *)
(***************************************************************************)
\* amounts, in units of 10 ** -AmountDigits, from -NegAmounts to MaxAmount
NegAmounts == 20
MaxAmount == 600

QuantAmounts == (0 - NegAmounts)..MaxAmount

\* the increments an exchange reports, and Missing for a product without
\* the key
Increments ==
    { <<"1">>, <<"0", ".", "1">>, <<"0", ".", "5">>, <<"0", ".", "0", "1">>,
      <<"0", ".", "0", "5">>, <<"0", ".", "0", "0", "1">> }

\* what the product lookup hands to the quantizer: the product's frame, or
\* the empty frame or {} of a failed lookup
QuantProducts ==
    {Frame(<<[base_increment |-> b, quote_increment |-> q]>>) :
        b \in Increments \cup {Missing}, q \in Increments \cup {Missing}}
    \cup {EmptyFrame, EmptyDict}

QuantInputs ==
    [product : QuantProducts, column : {"base_increment", "quote_increment"},
     amount : QuantAmounts]

QuantIdle ==
    /\ quant = [product |-> EmptyFrame, column |-> "base_increment",
                amount |-> 0]
    /\ quantOut = Pending

(***************************************************************************)
(* Threads: calls of authAPI on one AuthAPI object from several threads    *)
(***************************************************************************)
NumThreads == 2
MaxClock == 2

Threads == 1..NumThreads

\* hmac.new(base64.b64decode(secret), message, sha256): a value that
\* depends on the secret and on every part of the message
Hmac(secret, message) == <<"hmac", secret, message>>

NoHeaders ==
    [sign |-> <<>>, timestamp |-> 0, key |-> Unset, passphrase |-> Unset]

\* a thread outside authAPI
IdleThread ==
    [pc |-> "idle", self |-> NoAuth, timestamp |-> 0, headers |-> NoHeaders,
     reply |-> TransportError("none"), out |-> Pending]

\* AuthAPI.__call__ (lines 104-124): the timestamp is read once, into a
\* local, and the same local is signed and put in the headers
call_headers(self, now, method, path_url) ==
    LET timestamp == now
        message == <<timestamp, method, path_url, "">>
    IN  [sign |-> Hmac(self.api_secret, message), timestamp |-> timestamp,
         key |-> self.api_key, passphrase |-> self.api_passphrase]

\* the answers of the exchange to a thread's request
ThreadReplies ==
    {TransportError("ConnectionError"),
     HttpReply(200, TRUE, TRUE, "<missing>", "<missing>", <<>>),
     HttpReply(401, TRUE, FALSE, "<missing>", SkewMessage, <<>>),
     HttpReply(401, TRUE, FALSE, "<missing>", OtherMessage, <<>>),
     HttpReply(500, TRUE, FALSE, "<missing>", OtherMessage, <<>>)}

\* the AuthAPI objects the threads may share
Sessions ==
    {[AuthAPI_init(KeyGood, SecretGood, PassphraseGood,
                   "https://api.pro.coinbase.com").value
        EXCEPT !.die_on_api_error = die, !.debug = debug] :
        die \in BOOLEAN, debug \in BOOLEAN}

ThreadsIdle ==
    /\ session = NoAuth
    /\ threads = <<>>
    /\ clock = 0
    /\ tracebacklimit = "unset"

(***************************************************************************)
ParseIdle == market = NoneText /\ parsed = Pending

ParseInit ==
    /\ market \in Symbols \cup {NoneText}
    /\ parsed = Pending
    /\ OrdersIdle
    /\ BinIdle
    /\ ClientIdle
    /\ QuantIdle
    /\ ThreadsIdle

DoParseMarket ==
    /\ parsed.raised = "pending"
    /\ parsed' = parseMarket(market)
    /\ UNCHANGED <<market, orderVars, binVars, clientVars, quantVars, threadVars>>

ParseNext == DoParseMarket

SpecParse == ParseInit /\ [][ParseNext]_vars

(***************************************************************************)
(* Specification of getOrders' normalisation: a non-empty well-formed      *)
(* response and the arguments are drawn, then getOrders shapes its result. *)
(***************************************************************************)
OrdersInit ==
    /\ ordResp \in {Frame(rows) : rows \in OrderResponses}
    /\ ordArgs \in [market : {"", M1}, action : {"", "buy"},
                    status : OrderStatuses]
    /\ ordOut = Pending
    /\ ParseIdle
    /\ BinIdle
    /\ ClientIdle
    /\ QuantIdle
    /\ ThreadsIdle

DoGetOrders ==
    /\ ordOut.raised = "pending"
    /\ ordOut' = OrdersOf(ordResp, ordArgs.market, ordArgs.action,
                          ordArgs.status)
    /\ UNCHANGED <<ordResp, ordArgs, parseVars, binVars, clientVars, quantVars,
                   threadVars>>

OrdersNext == DoGetOrders

SpecOrders == OrdersInit /\ [][OrdersNext]_vars

(***************************************************************************)
(* Specification of the Binance configuration parser: the configuration    *)
(* and the files are drawn, then parser runs on a fresh app object.        *)
(***************************************************************************)
BinInit ==
    /\ binCfg \in BinanceConfigs
    /\ files \in BinanceFiles
    /\ app = AppBefore
    /\ binOut = [raised |-> "pending", msg |-> ""]
    /\ ParseIdle
    /\ OrdersIdle
    /\ ClientIdle
    /\ QuantIdle
    /\ ThreadsIdle

DoParser ==
    /\ binOut.raised = "pending"
    /\ LET r == parser(app, binCfg, files)
       IN  /\ binOut' = [raised |-> r.raised, msg |-> r.msg]
           /\ app' = r.app
           /\ files' = r.fs
    /\ UNCHANGED <<binCfg, parseVars, orderVars, clientVars, quantVars,
                   threadVars>>

BinNext == DoParser

SpecBinance == BinInit /\ [][BinNext]_vars

(***************************************************************************)
(* Specification of the quantizer: marketBaseIncrement and                 *)
(* marketQuoteIncrement on every product and amount of the inputs          *)
(***************************************************************************)
QuantInit ==
    /\ quant \in QuantInputs
    /\ quantOut = Pending
    /\ ParseIdle
    /\ OrdersIdle
    /\ BinIdle
    /\ ClientIdle
    /\ ThreadsIdle

DoQuantize ==
    /\ quantOut = Pending
    /\ quantOut' = Return(Quantize(quant.product, quant.column, quant.amount))
    /\ UNCHANGED <<quant, parseVars, orderVars, binVars, clientVars,
                   threadVars>>

QuantNext == DoQuantize

SpecQuant == QuantInit /\ [][QuantNext]_vars

(***************************************************************************)
(* Specification of the threads: each thread calls                         *)
(* session.authAPI("GET", "accounts") again and again; the steps of the    *)
(* threads interleave and the clock advances between them                  *)
(***************************************************************************)
ThreadsInit ==
    /\ session \in Sessions
    /\ threads = [t \in Threads |-> IdleThread]
    /\ clock = 0
    /\ tracebacklimit = "unset"
    /\ ParseIdle
    /\ OrdersIdle
    /\ BinIdle
    /\ ClientIdle
    /\ QuantIdle

threadOthers == <<parseVars, orderVars, binVars, clientVars, quantVars>>

\* time passes
Tick ==
    /\ clock < MaxClock
    /\ clock' = clock + 1
    /\ UNCHANGED <<session, threads, tracebacklimit, threadOthers>>

\* lines 595-599: requests.get(url, auth=self) prepares the request, has
\* self sign it and sends it
SignAndSend(t) ==
    /\ threads[t].pc = "idle"
    /\ threads' = [threads EXCEPT ![t] =
                     [IdleThread EXCEPT
                        !.pc = "sent",
                        !.self = session,
                        !.timestamp = clock,
                        !.headers = call_headers(session, clock, "GET",
                                                 "/accounts")]]
    /\ UNCHANGED <<session, clock, tracebacklimit, threadOthers>>

\* lines 603-666: the reply arrives and authAPI runs to its end; before it
\* raises for a status it sets sys.tracebacklimit (line 621)
Answer(t) ==
    /\ threads[t].pc = "sent"
    /\ \E r \in ThreadReplies :
        LET o == AuthAPI_onReply(session.die_on_api_error, session.debug, r)
        IN  /\ threads' = [threads EXCEPT ![t].pc = "done", ![t].reply = r,
                                          ![t].out = o.out]
            /\ tracebacklimit' = IF o.path = "raise" THEN "0"
                                 ELSE tracebacklimit
    /\ UNCHANGED <<session, clock, threadOthers>>

\* the thread's caller has the outcome; the thread may call again
Leave(t) ==
    /\ threads[t].pc = "done"
    /\ threads' = [threads EXCEPT ![t] = IdleThread]
    /\ UNCHANGED <<session, clock, tracebacklimit, threadOthers>>

ThreadsNext ==
    \/ Tick
    \/ \E t \in Threads : SignAndSend(t) \/ Answer(t) \/ Leave(t)

SpecThreads == ThreadsInit /\ [][ThreadsNext]_vars

(***************************************************************************)
(* Specification of the client: an AuthAPI object is constructed, the      *)
(* caller sets its options and calls operations one at a time; each        *)
(* request is answered by the network, or never.                           *)
(***************************************************************************)
Init ==
    /\ ClientIdle
    /\ QuantIdle
    /\ ThreadsIdle
    /\ ParseIdle
    /\ OrdersIdle
    /\ BinIdle

others == <<parseVars, orderVars, binVars, quantVars, threadVars>>

\* api = AuthAPI(key, secret, passphrase, url)
Construct ==
    /\ pc = "idle"
    /\ ~auth.built
    /\ \E x \in ConstructorArgs :
        LET r == AuthAPI_init(x.key, x.secret, x.passphrase, x.url)
        IN  /\ auth' = IF r.raised = None THEN r.value ELSE auth
            /\ out' = IF r.raised = None THEN Return(EmptyFrame) ELSE r
            /\ call' = [NoCall EXCEPT !.client = "auth", !.name = "AuthAPI",
                                      !.uri = x.url]
    /\ pc' = "done"
    /\ sent' = <<>>
    /\ apis' = NoApis
    /\ UNCHANGED <<pub, req, others>>

\* api.die_on_api_error = ..., api.debug = ...
SetOptions ==
    /\ pc = "idle"
    /\ \E die \in BOOLEAN, debug \in BOOLEAN :
        \/ /\ auth.built
           /\ auth' = [auth EXCEPT !.die_on_api_error = die, !.debug = debug]
           /\ auth' # auth
           /\ pub' = pub
        \/ /\ pub' = [debug |-> debug, die_on_api_error |-> die]
           /\ pub' # pub
           /\ auth' = auth
    /\ UNCHANGED <<call, pc, req, sent, out, apis, others>>

\* the caller calls an operation: it runs up to its first request
Invoke ==
    /\ pc = "idle"
    /\ \E c \in Calls :
        /\ c.client = "auth" => auth.built
        /\ LET step == OpBegin(c, auth, pub)
           IN  /\ call' = c
               /\ pc' = IF step.done THEN "done" ELSE "waiting"
               /\ out' = step.out
               /\ req' = step.req
               /\ sent' = IF step.done THEN <<>> ELSE <<step.req>>
    /\ apis' = NoApis
    /\ UNCHANGED <<auth, pub, others>>

\* the network answers the request in flight: authAPI handles the reply
\* and the operation runs on to its next request or to its end
Reply ==
    /\ pc = "waiting"
    /\ \E r \in Replies(req) :
        LET o == authAPI_onReply(req, r)
            step == OpResume(call, auth, req.stage, o.out)
        IN  /\ apis' = Append(apis, [client |-> req.client, die |-> req.die,
                                     reply |-> r, out |-> o.out,
                                     path |-> o.path, logged |-> o.logged])
            /\ pc' = IF step.done THEN "done" ELSE "waiting"
            /\ out' = step.out
            /\ req' = step.req
            /\ sent' = IF step.done THEN sent ELSE Append(sent, step.req)
            \* line 621, ahead of AuthAPI.authAPI's raise for a status
            /\ tracebacklimit' = IF req.client = "auth" /\ o.path = "raise"
                                 THEN "0" ELSE tracebacklimit
    /\ UNCHANGED <<auth, pub, call, parseVars, orderVars, binVars, quantVars,
                   session, threads, clock>>

\* the network never answers: without a timeout the call waits for ever
Hang ==
    /\ pc = "waiting"
    /\ RequestTimeout = None
    /\ pc' = "blocked"
    /\ UNCHANGED <<auth, pub, call, req, sent, out, apis, others>>

\* the caller has the outcome and goes on
Finish ==
    /\ pc = "done"
    /\ pc' = "idle"
    /\ call' = NoCall
    /\ req' = NoRequest
    /\ sent' = <<>>
    /\ out' = Pending
    /\ apis' = NoApis
    /\ UNCHANGED <<auth, pub, others>>

Next == Construct \/ SetOptions \/ Invoke \/ Reply \/ Hang \/ Finish

Spec == Init /\ [][Next]_vars

\* the client keeps running whenever it can take a step
FairSpec == Spec /\ WF_vars(Next)

(***************************************************************************)
(* The client: failures, validation, the expired timestamp, termination    *)
(***************************************************************************)
\* the reply is a failure: no response, a response that does not decode,
\* or a status other than 200
IsFailure(r) == r.kind # "http" \/ ~r.decodes \/ r.status # 200

AuthOperations ==
    {"getAccounts", "getAccount", "getFees", "getOrders", "marketBuy",
     "marketSell", "limitSell", "cancelOrders"}

\* an operation of AuthAPI has ended after a failure of one of its requests
EndedAfterFailure ==
    /\ pc = "done"
    /\ call.client = "auth"
    /\ call.name \in AuthOperations
    /\ \E i \in 1..Len(apis) : IsFailure(apis[i].reply)

\* C1: with die_on_api_error true, an operation of the authenticated
\* client that meets a transport failure or a status other than 200 ends
\* with the failure raised to its caller, never with a returned result.
C1_DieAborts ==
    (EndedAfterFailure /\ auth.die_on_api_error) => out.raised # None

\* C2: with die_on_api_error false, a call of authAPI (either client) that
\* meets a failure logs it and returns an empty result; it raises nothing.
C2_NoDieDegrades ==
    \A i \in 1..Len(apis) :
        (~apis[i].die /\ IsFailure(apis[i].reply)) =>
            /\ apis[i].out.raised = None
            /\ PyLen(apis[i].out.value) = 0
            /\ apis[i].logged # ""

\* the argument checks the operations make, by operation
InvalidArgs(c) ==
    CASE c.name = "AuthAPI" -> c.uri \notin coinbase_valid_urls
      [] c.name = "authAPI" ->
           \/ c.method \notin {"GET", "POST", "DELETE"}
           \/ c.uri = "<int>"
      [] c.name = "getOrders" ->
           \/ c.market # "" /\ ~IsCoinbaseMarket(c.market)
           \/ c.action \notin {"", "buy", "sell"}
           \/ c.status \notin OrderStatuses
      [] c.name = "marketBuy" ->
           \/ ~IsCoinbaseMarket(c.market)
           \/ c.amount.k # "num"
           \/ c.amount.v < MINIMUM_TRADE_AMOUNT * AmountUnit
      [] c.name = "marketSell" ->
           ~IsCoinbaseMarket(c.market) \/ c.amount.k # "num"
      [] c.name = "limitSell" ->
           \/ ~IsCoinbaseMarket(c.market)
           \/ c.amount.k # "num"
           \/ c.price.k # "num"
      [] c.name \in {"cancelOrders", "getTicker"} ->
           ~IsCoinbaseMarket(c.market)
      [] c.name = "getHistoricalData" ->
           \/ ~IsCoinbaseMarket(c.market)
           \/ c.granularity.k # "num"
           \/ c.granularity.v \notin {60, 300, 900, 3600, 21600, 86400}
      [] OTHER -> FALSE

\* C3: an operation called with an argument that fails its check raises to
\* the caller, and it has issued no request: from the call to its end the
\* list of the requests it sent is empty.
C3_ValidationBeforeNetwork ==
    (pc # "idle" /\ InvalidArgs(call)) =>
        /\ pc = "done"
        /\ out.raised \in {"ValueError", "TypeError", "SystemExit"}
        /\ sent = <<>>

\* a market order below the minimum amount was refused
C3_Witness ==
    /\ pc = "done"
    /\ call.name = "marketBuy"
    /\ IsCoinbaseMarket(call.market)
    /\ call.amount.k = "num"
    /\ call.amount.v < MINIMUM_TRADE_AMOUNT * AmountUnit
    /\ out.raised = "ValueError"
    /\ sent = <<>>

\* C4: AuthAPI.authAPI answers a decoded 401 whose message is "request
\* timestamp expired" on the path of the clock skew, whatever
\* die_on_api_error is: it logs the error with the NTP hint and returns {},
\* which neither generic path does; a 401 with another message never takes
\* that path.
C4_SkewClassified ==
    \A i \in 1..Len(apis) :
        LET x == apis[i]
        IN  (/\ x.client = "auth"
             /\ x.reply.kind = "http"
             /\ x.reply.decodes
             /\ x.reply.status = 401) =>
                IF resp_message(x.reply) = SkewMessage
                THEN /\ x.path = "skew"
                     /\ x.logged = "error: hint NTP"
                     /\ x.out = Return(EmptyDict)
                ELSE /\ x.path \in {"raise", "log"}
                     /\ x.logged # "error: hint NTP"
                     /\ x.out # Return(EmptyDict)

\* the expired timestamp met with die_on_api_error true
C4_Witness ==
    \E i \in 1..Len(apis) :
        /\ apis[i].client = "auth"
        /\ apis[i].die
        /\ apis[i].reply.kind = "http"
        /\ apis[i].reply.status = 401
        /\ resp_message(apis[i].reply) = SkewMessage
        /\ apis[i].path = "skew"

\* C5: every call of authAPI eventually returns or raises, whatever the
\* exchange does: a request in flight always leads to the end of the
\* operation.
C5_EveryCallReturns == (pc = "waiting") ~> (pc = "done")

\* AuthAPI.__init__ stores nothing when it raises (C6, the Coinbase Pro
\* constructor)
C6_CoinbaseAllOrNothing ==
    (pc = "done" /\ call.name = "AuthAPI" /\ out.raised # None) =>
        /\ out.msg # ""
        /\ auth = NoAuth

(***************************************************************************)
(* The quantizer                                                           *)
(***************************************************************************)
QuantDone == quantOut.raised = None

\* the product carries the increment the call asks for
IncrementReported ==
    /\ PyLen(quant.product) > 0
    /\ quant.product.rows[1][quant.column] # Missing

\* the number of decimal places of a decimal text
Decimals(text) ==
    IF \A i \in 1..Len(text) : text[i] # "." THEN 0
    ELSE Len(text) - (CHOOSE i \in 1..Len(text) : text[i] = ".")

\* the value of a decimal text in units of 10 ** -AmountDigits
IncValue(text) ==
    LET NotDot(ch) == ch # "."
    IN  DigitsValue(SelectSeq(text, NotDot))
            * Pow10(AmountDigits - Decimals(text))

\* C11: for a non-negative amount and an increment reported by the
\* exchange the quantizer returns the largest multiple of the increment
\* that does not exceed the amount.
C11_LargestMultiple ==
    (QuantDone /\ IncrementReported /\ quant.amount >= 0) =>
        LET inc == IncValue(quant.product.rows[1][quant.column])
        IN  /\ quantOut.value % inc = 0
            /\ quantOut.value <= quant.amount
            /\ quant.amount < quantOut.value + inc

\* C12: for an increment text with d decimal places the quantizer returns
\* floor(amount * 10^d) / 10^d, the one multiple of 10^-d in
\* (amount - 10^-d, amount]: never more than the amount, never the amount
\* rounded up; without a reported increment it returns the amount.
C12_FloorsToDecimals ==
    QuantDone =>
        IF ~IncrementReported THEN quantOut.value = quant.amount
        ELSE LET d == Decimals(quant.product.rows[1][quant.column])
                 unit == IF d >= AmountDigits THEN 1
                         ELSE Pow10(AmountDigits - d)
             IN  /\ quantOut.value % unit = 0
                 /\ quantOut.value <= quant.amount
                 /\ quant.amount < quantOut.value + unit

\* 0.026 with the increment "0.01" gave 0.02
C12_Witness ==
    /\ QuantDone
    /\ IncrementReported
    /\ quant.product.rows[1][quant.column] = <<"0", ".", "0", "1">>
    /\ quant.amount = Milli(26)
    /\ quantOut.value = Milli(20)

(***************************************************************************)
(* Granularity                                                             *)
(***************************************************************************)
SupportedSeconds == {60, 300, 900, 3600, 21600, 86400}

\* C13 (parser): the granularity the app object holds after parsing is one
\* of 60, 300, 900, 3600, 21600, 86400; any other input is rejected, not
\* stored.
C13_GranularitySupported ==
    (binOut.raised # "pending" /\ app.granularity.k = "num") =>
        app.granularity.v \in SupportedSeconds

\* the granularity of every candle record getHistoricalData returns is a
\* supported one, and no request leaves for another (C13, the candles)
C13_CandleGranularity ==
    (call.name = "getHistoricalData" /\ pc # "idle") =>
        /\ sent # <<>> =>
              call.granularity.k = "num"
              /\ call.granularity.v \in SupportedSeconds
        /\ (pc = "done" /\ out.raised = None) =>
              \A i \in 1..Len(out.value.rows) :
                  out.value.rows[i].granularity \in SupportedSeconds

(***************************************************************************)
(* Threads                                                                 *)
(***************************************************************************)
\* what thread t's call gives when it runs alone on the object it started
\* with
AloneOutcome(t) ==
    AuthAPI_onReply(threads[t].self.die_on_api_error, threads[t].self.debug,
                    threads[t].reply).out

\* every call in progress has the result and the signed headers of a call
\* running alone, and the object is the one the call started with
CallsIndependent ==
    \A t \in Threads :
        /\ threads[t].pc # "idle" =>
              /\ session = threads[t].self
              /\ threads[t].headers =
                    call_headers(threads[t].self, threads[t].timestamp,
                                 "GET", "/accounts")
              /\ threads[t].headers.sign[3][1] = threads[t].headers.timestamp
        /\ threads[t].pc = "done" => threads[t].out = AloneOutcome(t)

\* C14: for any interleaving of calls on one session no call writes state
\* another call reads: results and signed headers are those of the call
\* running alone, the session is unchanged, the header's timestamp is the
\* signed one, and no process-global state (sys.tracebacklimit) is
\* modified.
C14_NoSharedWrites ==
    /\ CallsIndependent
    /\ session \in Sessions
    /\ tracebacklimit = "unset"

\* the part of C14 about the session and the signature alone
C14_SessionAndHeaders == CallsIndependent /\ session \in Sessions

(***************************************************************************)
(* Accounts                                                                *)
(***************************************************************************)
\* the balance is numerically zero: a decimal text of zeros
IsZeroBalance(text) == AllIn(text, {"0", "."})

\* getAccounts has returned a result
AccountsDone ==
    /\ pc = "done"
    /\ call.client = "auth"
    /\ call.name = "getAccounts"
    /\ out.raised = None

\* the accounts the exchange delivered to the call
AccountsDelivered ==
    IF apis[1].out.raised = None THEN apis[1].out.value.rows ELSE <<>>

\* C15: getAccounts returns no account whose balance is numerically zero,
\* however the exchange writes the zero, and every account with another
\* balance.
C15_NoZeroBalance ==
    AccountsDone =>
        LET NonZero(row) == ~IsZeroBalance(row.balance)
        IN  out.value.rows = SelectSeq(AccountsDelivered, NonZero)

\* zero written as "0.0000000000000000" is excluded and the rest is kept
C15_NilBalanceExcluded ==
    AccountsDone =>
        LET NotNil(row) == row.balance # NilBalance
        IN  out.value.rows = SelectSeq(AccountsDelivered, NotNil)

\* some quote currency is a suffix of m
HasQuoteSuffix(m) ==
    \E i \in 1..Len(quote_currencies) : EndsWith(m, quote_currencies[i])

ParseDone == parsed.raised # "pending"

\* C7: every grammar-valid symbol of which no quote currency is a suffix
\* is rejected by parseMarket with an error; no pair is returned for it.
C7_NoSuffixRejected ==
    (ParseDone /\ isMarketValid(market) /\ ~HasQuoteSuffix(market))
        => parsed.raised = "ValueError"

\* C8: whenever parseMarket returns, quote is the first quote currency that
\* is a suffix of the symbol, base is non-empty and base \o quote = symbol.
C8_ParseReconstructs ==
    (ParseDone /\ parsed.raised = None) =>
        /\ FirstSuffixIndex(market) # 0
        /\ parsed.value.quote_currency = quote_currencies[FirstSuffixIndex(market)]
        /\ Len(parsed.value.base_currency) > 0
        /\ parsed.value.base_currency \o parsed.value.quote_currency = market

\* C8 restricted to the symbols that do have a quote-currency suffix
C8_ReconstructsWhenSuffix ==
    (ParseDone /\ parsed.raised = None /\ HasQuoteSuffix(market)) =>
        parsed.value.base_currency \o parsed.value.quote_currency = market

(***************************************************************************)
(* getOrders                                                               *)
(***************************************************************************)
OrdersDone == ordOut.raised # "pending"

\* the raw orders of the response that pass the filters of the call
MatchingRaw ==
    {i \in 1..Len(ordResp.rows) :
        /\ (ordArgs.market # "" => ordResp.rows[i].product_id = ordArgs.market)
        /\ (ordArgs.action # "" => ordResp.rows[i].side = ordArgs.action)
        /\ (ordArgs.status # "all" => ordResp.rows[i].status = ordArgs.status)}

\* the raw order an output record was made from (created_at identifies it)
RawOf(row) ==
    CHOOSE raw \in {ordResp.rows[i] : i \in 1..Len(ordResp.rows)} :
        raw.created_at = row.created_at

IsMissing(cell) == cell.k \in {"null", "absent"}

\* C9: for every accepted status and every non-empty well-formed response
\* getOrders returns exactly one record per raw order that passes the
\* market/action/status filters; it never fails and never drops them.
C9_OrdersTotal ==
    OrdersDone =>
        /\ ordOut.raised = None
        /\ Len(ordOut.value.rows) = Cardinality(MatchingRaw)

\* C9 for the statuses other than "open"
C9_TotalUnlessOpen ==
    (OrdersDone /\ ordArgs.status # "open") =>
        /\ ordOut.raised = None
        /\ Len(ordOut.value.rows) = Cardinality(MatchingRaw)

\* C10: in every record getOrders returns, an amount (size, filled, fees,
\* price) whose raw value was missing or null is 0, and no amount is NaN.
C10_MissingIsZero ==
    (OrdersDone /\ ordOut.raised = None) =>
        \A i \in 1..Len(ordOut.value.rows) :
            LET row == ordOut.value.rows[i]
                raw == RawOf(row)
            IN  /\ IsMissing(raw.specified_funds) => row.size = Num(0)
                /\ IsMissing(raw.filled_size) => row.filled = Num(0)
                /\ IsMissing(raw.fill_fees) => row.fees = Num(0)
                /\ \A f \in {"size", "filled", "fees", "price"} :
                       row[f].k = "num"

\* C10 for the price alone, which the normaliser does compute as 0
C10_PriceNeverNaN ==
    (OrdersDone /\ ordOut.raised = None) =>
        \A i \in 1..Len(ordOut.value.rows) :
            ordOut.value.rows[i].price.k = "num"

(***************************************************************************)
(* Order of the records, price of an order                                 *)
(***************************************************************************)
\* out is inp back to front
IsReversalOf(outSeq, inp) ==
    /\ Len(outSeq) = Len(inp)
    /\ \A i \in 1..Len(inp) : outSeq[i] = inp[Len(inp) + 1 - i]

NonDecreasing(seq) == \A i \in 1..Len(seq) - 1 : seq[i] <= seq[i + 1]

\* the raw orders delivered to the getOrders call in progress that pass
\* its filters, in the order of delivery
OrdersDeliveredKept ==
    LET Keep(raw) ==
            /\ (call.market # "" => raw.product_id = call.market)
            /\ (call.action # "" => raw.side = call.action)
            /\ (call.status # "all" => raw.status = call.status)
        raws == IF apis[1].out.raised = None THEN apis[1].out.value.rows
                ELSE <<>>
    IN  SelectSeq(raws, Keep)

StampsOf(rows) == [i \in 1..Len(rows) |-> rows[i].created_at]
EpochsOf(rows) == [i \in 1..Len(rows) |-> rows[i].epoch]
DatesOf(rows) == [i \in 1..Len(rows) |-> rows[i].date]

\* C16: the records getOrders and getHistoricalData return are, after
\* filtering, in the exact reverse of the order of delivery; the exchange
\* delivers newest first, so the times of the output never decrease.
C16_ReverseOfDelivery ==
    /\ (/\ pc = "done" /\ call.client = "auth" /\ call.name = "getOrders"
        /\ out.raised = None /\ Len(out.value.rows) > 0) =>
            /\ IsReversalOf(StampsOf(out.value.rows),
                            StampsOf(OrdersDeliveredKept))
            /\ NonDecreasing(StampsOf(out.value.rows))
    /\ (/\ pc = "done" /\ call.name = "getHistoricalData"
        /\ out.raised = None /\ Len(apis) > 0
        /\ apis[1].out.raised = None) =>
            /\ IsReversalOf(DatesOf(out.value.rows),
                            EpochsOf(apis[1].out.value.rows))
            /\ NonDecreasing(DatesOf(out.value.rows))

\* two orders and two candles came back oldest first
C16_Witness ==
    /\ pc = "done"
    /\ out.raised = None
    /\ Len(out.value.rows) = 2
    /\ \/ /\ call.name = "getOrders"
          /\ StampsOf(out.value.rows) = <<1, 2>>
          /\ StampsOf(apis[1].out.value.rows) = <<2, 1>>
       \/ /\ call.name = "getHistoricalData"
          /\ DatesOf(out.value.rows) = <<1, 2>>
          /\ EpochsOf(apis[1].out.value.rows) = <<2, 1>>

\* the order of getOrders' records over every response of SpecOrders
C16_OrdersReversed ==
    (OrdersDone /\ ordOut.raised = None /\ Len(ordOut.value.rows) > 0) =>
        LET Keep(raw) ==
                /\ (ordArgs.market # "" => raw.product_id = ordArgs.market)
                /\ (ordArgs.action # "" => raw.side = ordArgs.action)
                /\ (ordArgs.status # "all" => raw.status = ordArgs.status)
        IN  /\ IsReversalOf(StampsOf(ordOut.value.rows),
                            StampsOf(SelectSeq(ordResp.rows, Keep)))
            /\ NonDecreasing(StampsOf(ordOut.value.rows))

\* C17: for every status other than open, each record of getOrders has
\* price = executed_value / filled_size when filled_size > 0 and price = 0
\* when filled_size is 0; no record is lost to an exception.
C17_PriceIsQuotient ==
    (OrdersDone /\ ordArgs.status # "open") =>
        /\ ordOut.raised = None
        /\ Len(ordOut.value.rows) = Cardinality(MatchingRaw)
        /\ \A i \in 1..Len(ordOut.value.rows) :
            LET row == ordOut.value.rows[i]
                raw == RawOf(row)
            IN  (raw.filled_size.k = "num" /\ raw.executed_value.k = "num") =>
                    /\ row.price.k = "num"
                    /\ IF raw.filled_size.v > 0
                       THEN row.price.v * raw.filled_size.v
                                = raw.executed_value.v
                       ELSE row.price.v = 0

\* filled_size 2 and executed_value 10 gave 5, filled_size 0 gave 0
C17_Witness ==
    /\ OrdersDone
    /\ ordArgs.status # "open"
    /\ ordOut.raised = None
    /\ \E i, j \in 1..Len(ordOut.value.rows) :
        /\ RawOf(ordOut.value.rows[i]).filled_size = Num(2)
        /\ RawOf(ordOut.value.rows[i]).executed_value = Num(10)
        /\ ordOut.value.rows[i].price = Num(5)
        /\ RawOf(ordOut.value.rows[j]).filled_size = Num(0)
        /\ ordOut.value.rows[j].price = Num(0)

(***************************************************************************)
(* Orders are sent after the product lookup                                *)
(***************************************************************************)
OrderOperations == {"marketBuy", "marketSell", "limitSell"}

\* C18: marketBuy, marketSell and limitSell POST an order only after a
\* product lookup that succeeded: when the lookup fails (a status other
\* than 200, a connection error, a timeout, the clock skew) no order is
\* sent.
C18_PostOnlyAfterLookup ==
    (call.client = "auth" /\ call.name \in OrderOperations) =>
        \A i \in 1..Len(sent) :
            sent[i].method = "POST" =>
                /\ i = 2
                /\ sent[1].method = "GET"
                /\ Len(apis) >= 1
                /\ ~IsFailure(apis[1].reply)

\* the lookup precedes the POST, and a lookup that raised sends no order
C18_LookupFirst ==
    (call.client = "auth" /\ call.name \in OrderOperations) =>
        \A i \in 1..Len(sent) :
            sent[i].method = "POST" =>
                /\ i = 2
                /\ sent[1].method = "GET"
                /\ Len(apis) >= 1
                /\ apis[1].out.raised = None

(***************************************************************************)
(* Credentials                                                             *)
(***************************************************************************)
CredentialErrors == {"TypeError", "ValueError"}

\* C6 (Binance parser): when a credential field fails its shape check the
\* parser fails with an error naming the field and no credential field
\* (key, secret, URL) has been stored on the app object.
C6_BinanceAllOrNothing ==
    (binOut.raised \in CredentialErrors /\ binOut.msg # "") =>
        /\ app.api_key = Unset
        /\ app.api_secret = Unset
        /\ app.api_url = "<unset>"

====
